---- MODULE Spec2Model ----
(***************************************************************************)
(* The aggregator of slimevr-wrangler (src/joycon/communication.rs) and    *)
(* the acquisition workers feeding it (src/joycon/integration.rs).         *)
(*                                                                         *)
(* main_thread owns the device table, the UDP socket and the status        *)
(* output channel.  One loop iteration is: the handshake retry block       *)
(* (pc = "check"), the drain of the event channel (pc = "drain", one       *)
(* message of receive.try_iter() per step), the status publication         *)
(* (pc = "publish").  The workers, the clock, the remote endpoint and the  *)
(* status consumer are the environment.                                    *)
(***************************************************************************)
EXTENDS Integers, Sequences, FiniteSets, TLC

(* ------------------------------ bounds -------------------------------- *)
\* events the workers of Spec send in one run
MaxEvents == 3
\* events waiting in the channel at once
MaxQueue == 2
\* datagrams waiting in the socket at once
MaxInbound == 1
\* the clock readings saturate here (every reading >= HandshakeInterval
\* takes the same branch)
MaxElapsed == 3
\* estimator updates one device takes in SpecLive and SpecWide
MaxImuLen == 3
\* distinct devices SpecWide connects: one more than a u8 can number
WideN == 257

(* ------------------------- program constants -------------------------- *)
\* id: u8
U8Mod == 256
\* last_handshake_try.elapsed().as_secs() >= 3
HandshakeInterval == 3
\* Instant::now() - Duration::from_secs(60)
HandshakeBackdate == 60
\* for _ in 0..2
DrainAttempts == 2
\* imu_data: [JoyconAxisData; 3]
FramesPerReport == 3

\* the serial numbers of the controllers of Spec, SpecLong and SpecLive
Serials == {1, 2}
\* the reports the workers read: FramesPerReport frames, in order
Batches == {<<1, 2, 3>>, <<3, 1, 2>>}
\* the ghost counters stop here
GhostCap == MaxEvents + 1

Min(a, b) == IF a < b THEN a ELSE b

VARIABLES
    devices,        \* HashMap<String, Device>: serial -> [imu, design, id]
    any_response,   \* main_thread's any_response
    elapsed,        \* last_handshake_try.elapsed().as_secs(), saturating
    pc,             \* where main_thread's loop stands
    attempt,        \* the index of `for _ in 0..2`
    got_message,    \* main_thread's got_message
    chan,           \* the mpsc channel of ChannelInfo, workers -> aggregator
    inbound,        \* datagrams waiting in the socket
    outq,           \* the mpsc channel of Vec<JoyconStatus>
    outClosed,      \* the receiver of outq was dropped
    sent,           \* the datagrams the last aggregator step sent, in order
    pubd,           \* the snapshot the last aggregator step queued, if any
    last,           \* the last aggregator step: [op, ev]
    sinceHs,        \* seconds since the last Handshake send, saturating
    hsSent,         \* a Handshake was sent
    nPub,           \* publications so far (saturating at GhostCap)
    nActive,        \* iterations that drained an event (saturating)
    drained,        \* this iteration drained an event
    evLeft,         \* events the workers of Spec may still send
    announced,      \* serial -> sensor_id of its last connection-time SensorInfo
    procLog,        \* worker -> the events of it main_thread processed, in order
    wpc,            \* worker -> where joycon_thread stands
    sentLog         \* worker -> the events it sent, in order

vars == <<devices, any_response, elapsed, pc, attempt, got_message, chan,
          inbound, outq, outClosed, sent, pubd, last, sinceHs, hsSent,
          nPub, nActive, drained, evLeft, announced, procLog, wpc, sentLog>>

aggVars == <<devices, any_response, pc, attempt, got_message, sent, pubd,
             last, hsSent, nPub, nActive, drained, announced, procLog>>

workerVars == <<wpc, sentLog>>

(* ------------------------------ estimator ----------------------------- *)
\* The estimator is the frames it was fed since new(), in order: every
\* estimator is a function of that.
ImuNew == <<>>
ImuUpdate(imu, frame) == Append(imu, frame)
ImuRotation(imu) == <<"quat", imu>>
ImuEuler(imu) == <<"euler", imu>>

(* ------------------------------ messages ------------------------------ *)
Handshake ==
    [kind |-> "Handshake", packet_id |-> 1, board |-> 0, imu |-> 0,
     mcu_type |-> 0, build |-> 0, firmware |-> "slimevr-wrangler"]

SensorInfo(id) ==
    [kind |-> "SensorInfo", packet_id |-> 1, sensor_id |-> id,
     sensor_status |-> 1]

RotationData(id, quat) ==
    [kind |-> "RotationData", packet_id |-> 1, sensor_id |-> id,
     data_type |-> 1, quat |-> quat, calibration_info |-> 0]

Connected(sn, design) ==
    [kind |-> "Connected", serial_number |-> sn, design |-> design]

Data(sn, frames) ==
    [kind |-> "Data", serial_number |-> sn, imu_data |-> frames]

NoEvent == [kind |-> "None"]

(* ---------------------------- parse_message --------------------------- *)
NewSlot_OneBased(devs) == (Cardinality(DOMAIN devs) + 1) % U8Mod

\* let id = devices.len() as _;
NewSlot(devs) == Cardinality(DOMAIN devs) % U8Mod

NewDevice_KeepSlot(info, devs) ==
    [imu |-> ImuNew, design |-> info.design,
     id |-> IF info.serial_number \in DOMAIN devs
            THEN devs[info.serial_number].id ELSE NewSlot(devs)]

NewDevice(info, devs) ==
    [imu |-> ImuNew, design |-> info.design, id |-> NewSlot(devs)]

\* Device::handshake: the datagram it sends
Device_handshake(device) == SensorInfo(device.id)

Insert_EvictSameSlot(devs, sn, device) ==
    [s \in {t \in DOMAIN devs : devs[t].id # device.id} \cup {sn} |->
        IF s = sn THEN device ELSE devs[s]]

\* devices.insert(serial_number, device)
Insert(devs, sn, device) ==
    [s \in DOMAIN devs \cup {sn} |-> IF s = sn THEN device ELSE devs[s]]

RECURSIVE FeedFrames_Backwards(_, _)
FeedFrames_Backwards(imu, frames) ==
    IF frames = <<>> THEN imu
    ELSE ImuUpdate(FeedFrames_Backwards(imu, Tail(frames)), Head(frames))

\* for frame in data.imu_data { device.imu.update(frame); }
RECURSIVE FeedFrames(_, _)
FeedFrames(imu, frames) ==
    IF frames = <<>> THEN imu
    ELSE FeedFrames(ImuUpdate(imu, Head(frames)), Tail(frames))

RotationPacket_FirstSlot(device) == RotationData(0, ImuRotation(device.imu))

\* lines 93-99: the RotationData of a record
RotationPacket(device) == RotationData(device.id, ImuRotation(device.imu))

OnConnected_QuietReconnect(info, devs) ==
    LET device == NewDevice(info, devs)
    IN  [devices |-> Insert(devs, info.serial_number, device),
         sent |-> IF info.serial_number \in DOMAIN devs
                  THEN <<>> ELSE <<Device_handshake(device)>>,
         op |-> "connected"]

OnConnected(info, devs) ==
    LET device == NewDevice(info, devs)
    IN  [devices |-> Insert(devs, info.serial_number, device),
         sent |-> <<Device_handshake(device)>>,
         op |-> "connected"]

OnData_Renumber(data, devs) ==
    IF data.serial_number \in DOMAIN devs
    THEN LET old == devs[data.serial_number]
             device == [old EXCEPT !.imu = FeedFrames(old.imu, data.imu_data),
                                   !.id = NewSlot(devs)]
         IN  [devices |-> [devs EXCEPT ![data.serial_number] = device],
              sent |-> <<RotationPacket(device)>>,
              op |-> "data"]
    ELSE [devices |-> devs, sent |-> <<>>, op |-> "data_unknown"]

OnData_AdoptUnknown(data, devs) ==
    LET old == IF data.serial_number \in DOMAIN devs
               THEN devs[data.serial_number]
               ELSE [imu |-> ImuNew, design |-> "Left", id |-> NewSlot(devs)]
        device == [old EXCEPT !.imu = FeedFrames(old.imu, data.imu_data)]
    IN  [devices |-> Insert(devs, data.serial_number, device),
         sent |-> <<RotationPacket(device)>>,
         op |-> "data"]

OnData(data, devs) ==
    IF data.serial_number \in DOMAIN devs
    THEN LET old == devs[data.serial_number]
             device == [old EXCEPT !.imu = FeedFrames(old.imu, data.imu_data)]
         IN  [devices |-> [devs EXCEPT ![data.serial_number] = device],
              sent |-> <<RotationPacket(device)>>,
              op |-> "data"]
    ELSE [devices |-> devs, sent |-> <<>>, op |-> "data_unknown"]

parse_message(msg, devs) ==
    IF msg.kind = "Connected" THEN OnConnected(msg, devs) ELSE OnData(msg, devs)

(* ------------------------------ main_thread --------------------------- *)
\* the orders devices.values() may come in
RECURSIVE Orders(_)
Orders(S) ==
    IF S = {} THEN {<<>>}
    ELSE UNION {{<<x>> \o o : o \in Orders(S \ {x})} : x \in S}

HandshakeDue_NoLatch == elapsed >= HandshakeInterval

HandshakeDue_Early == ~any_response /\ elapsed >= HandshakeInterval - 1

\* !any_response && last_handshake_try.elapsed().as_secs() >= 3
HandshakeDue == ~any_response /\ elapsed >= HandshakeInterval

\* slime_handshake, then device.handshake for device in devices.values()
ResendPackets(order) ==
    <<Handshake>> \o [i \in 1..Len(order) |-> Device_handshake(devices[order[i]])]

Statuses_SkipFresh(order) ==
    LET seen == SelectSeq(order, LAMBDA d : devices[d].imu # ImuNew)
    IN  [i \in 1..Len(seen) |->
            [connected |-> TRUE,
             rotation |-> ImuEuler(devices[seen[i]].imu),
             design |-> devices[seen[i]].design]]

\* lines 169-176: one JoyconStatus per device of devices.values()
Statuses(order) ==
    [i \in 1..Len(order) |->
        [connected |-> TRUE,
         rotation |-> ImuEuler(devices[order[i]].imu),
         design |-> devices[order[i]].design]]

Bump(n) == IF n < GhostCap THEN n + 1 ELSE n

\* main_thread up to its loop (lines 131-140); the workers have `budget`
\* events to send, the status consumer is there or gone
InitAggregator(budget, closed) ==
    /\ devices = <<>>
    /\ any_response = FALSE
    /\ elapsed = Min(HandshakeBackdate, MaxElapsed)
    /\ pc = "check"
    /\ attempt = 0
    /\ got_message = FALSE
    /\ chan = <<>>
    /\ inbound = 0
    /\ outq = <<>>
    /\ outClosed = closed
    /\ sent = <<>>
    /\ pubd = <<>>
    /\ last = [op |-> "init", ev |-> NoEvent]
    /\ sinceHs = 0
    /\ hsSent = FALSE
    /\ nPub = 0
    /\ nActive = 0
    /\ drained = FALSE
    /\ evLeft = budget
    /\ announced = <<>>

\* the same, the workers being left to the environment: none is modelled
InitWith(budget, closed) ==
    /\ InitAggregator(budget, closed)
    /\ procLog = <<>>
    /\ wpc = <<>>
    /\ sentLog = <<>>

Init == InitWith(MaxEvents, FALSE)

\* lines 143-154, and got_message = false of line 156
LivenessCheck ==
    /\ pc = "check"
    /\ IF HandshakeDue
       THEN IF inbound > 0
            THEN /\ any_response' = TRUE
                 /\ inbound' = inbound - 1
                 /\ sent' = <<>>
                 /\ last' = [op |-> "check_recv", ev |-> NoEvent]
                 /\ UNCHANGED <<elapsed, sinceHs, hsSent>>
            ELSE /\ \E order \in Orders(DOMAIN devices) :
                        sent' = ResendPackets(order)
                 /\ elapsed' = 0
                 /\ sinceHs' = 0
                 /\ hsSent' = TRUE
                 /\ last' = [op |-> "check_resend", ev |-> NoEvent]
                 /\ UNCHANGED <<any_response, inbound>>
       ELSE /\ sent' = <<>>
            /\ last' = [op |-> "check_skip", ev |-> NoEvent]
            /\ UNCHANGED <<any_response, inbound, elapsed, sinceHs, hsSent>>
    /\ pc' = "drain"
    /\ attempt' = 0
    /\ got_message' = FALSE
    /\ drained' = FALSE
    /\ pubd' = <<>>
    /\ UNCHANGED <<devices, chan, outq, outClosed, nPub, nActive, evLeft,
                   announced, procLog, workerVars>>

\* the connection-time SensorInfo seen on the wire: the datagram a Connected
\* event made main_thread send
Announce(ann, msg, out) ==
    IF msg.kind = "Connected" /\ out # <<>> /\ out[1].kind = "SensorInfo"
    THEN [s \in DOMAIN ann \cup {msg.serial_number} |->
             IF s = msg.serial_number THEN out[1].sensor_id ELSE ann[s]]
    ELSE ann

\* the log of the worker the event came from, kept for the workers there are
Logged(log, msg) ==
    IF msg.serial_number \in DOMAIN log
    THEN [log EXCEPT ![msg.serial_number] = Append(@, msg)]
    ELSE log

ChanRest_Purge(q) == <<>>

\* what receive.try_iter() leaves in the channel after yielding one message
ChanRest(q) == Tail(q)

\* lines 158-161: one message of receive.try_iter()
ProcessEvent ==
    /\ pc = "drain"
    /\ chan # <<>>
    /\ LET r == parse_message(Head(chan), devices)
       IN  /\ devices' = r.devices
           /\ sent' = r.sent
           /\ last' = [op |-> r.op, ev |-> Head(chan)]
           /\ announced' = Announce(announced, Head(chan), r.sent)
    /\ procLog' = Logged(procLog, Head(chan))
    /\ chan' = ChanRest(chan)
    /\ got_message' = TRUE
    /\ drained' = TRUE
    /\ nActive' = IF drained THEN nActive ELSE Bump(nActive)
    /\ pubd' = <<>>
    /\ UNCHANGED <<any_response, elapsed, pc, attempt, inbound, outq,
                   outClosed, sinceHs, hsSent, nPub, evLeft, workerVars>>

\* lines 162-166: try_iter() found the channel empty
DrainEmpty ==
    /\ pc = "drain"
    /\ chan = <<>>
    /\ IF got_message
       THEN /\ pc' = "publish"
            /\ UNCHANGED attempt
       ELSE IF attempt + 1 < DrainAttempts
            THEN /\ attempt' = attempt + 1
                 /\ UNCHANGED pc
            ELSE /\ pc' = "publish"
                 /\ UNCHANGED attempt
    /\ sent' = <<>>
    /\ pubd' = <<>>
    /\ last' = [op |-> "empty", ev |-> NoEvent]
    /\ UNCHANGED <<devices, any_response, elapsed, got_message, chan, inbound,
                   outq, outClosed, sinceHs, hsSent, nPub, nActive, drained,
                   evLeft, announced, procLog, workerVars>>

\* if got_message (line 168)
ShouldPublish_Always == TRUE

ShouldPublish == got_message

OutSend_Rendezvous(q, statuses) == IF q = <<>> THEN <<statuses>> ELSE q

\* output_tx.send(statuses) on an mpsc::Sender: the channel has no capacity
\* limit, the snapshot is queued behind the ones not yet received
OutSend(q, statuses) == Append(q, statuses)

AfterSend_Unwrap(closed) == IF closed THEN "panicked" ELSE "check"

\* let _drop = output_tx.send(statuses): the Result is dropped, the loop goes on
AfterSend(closed) == "check"

\* lines 168-178
Publish ==
    /\ pc = "publish"
    /\ IF ShouldPublish
       THEN /\ IF outClosed
               THEN /\ pubd' = <<>>
                    /\ last' = [op |-> "publish_dropped", ev |-> NoEvent]
                    /\ UNCHANGED outq
               ELSE /\ \E order \in Orders(DOMAIN devices) :
                          /\ pubd' = <<Statuses(order)>>
                          /\ outq' = OutSend(outq, Statuses(order))
                    /\ last' = [op |-> "publish", ev |-> NoEvent]
            /\ nPub' = Bump(nPub)
            /\ pc' = AfterSend(outClosed)
       ELSE /\ pubd' = <<>>
            /\ last' = [op |-> "nopublish", ev |-> NoEvent]
            /\ pc' = "check"
            /\ UNCHANGED <<outq, nPub>>
    /\ sent' = <<>>
    /\ UNCHANGED <<devices, any_response, elapsed, attempt, got_message, chan,
                   inbound, outClosed, sinceHs, hsSent, nActive, drained,
                   evLeft, announced, procLog, workerVars>>

Aggregator == LivenessCheck \/ ProcessEvent \/ DrainEmpty \/ Publish

(* ------------------------------ environment --------------------------- *)
\* joycon_thread: the design is read from the controller
DesignOf(sn) == IF sn % 2 = 1 THEN "Left" ELSE "Right"

ConnectedEvents == {Connected(sn, DesignOf(sn)) : sn \in Serials}
DataEvents == {Data(sn, b) : sn \in Serials, b \in Batches}
Events == ConnectedEvents \cup DataEvents

\* tx.send(ChannelInfo::Connected(info)), tx.send(ChannelInfo::Data(data))
WorkerSend ==
    /\ evLeft > 0
    /\ Len(chan) < MaxQueue
    /\ \E e \in Events : chan' = Append(chan, e)
    /\ evLeft' = evLeft - 1
    /\ UNCHANGED <<aggVars, workerVars, elapsed, inbound, outq, outClosed, sinceHs>>

\* a second passes
Tick ==
    /\ elapsed' = Min(elapsed + 1, MaxElapsed)
    /\ sinceHs' = Min(sinceHs + 1, MaxElapsed)
    /\ UNCHANGED <<aggVars, workerVars, chan, inbound, outq, outClosed, evLeft>>

\* the endpoint answers
DatagramArrives ==
    /\ inbound < MaxInbound
    /\ inbound' = inbound + 1
    /\ UNCHANGED <<aggVars, workerVars, elapsed, chan, outq, outClosed, sinceHs, evLeft>>

\* the status consumer receives a snapshot
ConsumerRecv ==
    /\ ~outClosed
    /\ outq # <<>>
    /\ outq' = Tail(outq)
    /\ UNCHANGED <<aggVars, workerVars, elapsed, chan, inbound, outClosed, sinceHs, evLeft>>

\* the status consumer drops its receiver
ConsumerDrop ==
    /\ ~outClosed
    /\ outClosed' = TRUE
    /\ outq' = <<>>
    /\ UNCHANGED <<aggVars, workerVars, elapsed, chan, inbound, sinceHs, evLeft>>

Next ==
    \/ LivenessCheck
    \/ ProcessEvent
    \/ DrainEmpty
    \/ Publish
    \/ WorkerSend
    \/ Tick
    \/ DatagramArrives

\* the status consumer never receives: every snapshot stays queued
Spec == Init /\ [][Next]_vars

(* ---------------- SpecLive: no datagram ever arrives ------------------ *)
\* the estimator of a known device has room for one more report
FloodOk(e) ==
    (e.kind = "Data" /\ e.serial_number \in DOMAIN devices)
        => Len(devices[e.serial_number].imu) + FramesPerReport <= MaxImuLen

\* tx.send, whenever the channel is empty and as often as the workers like
WorkerFlood ==
    /\ chan = <<>>
    /\ \E e \in Events : FloodOk(e) /\ chan' = <<e>>
    /\ UNCHANGED <<aggVars, workerVars, elapsed, inbound, outq, outClosed, sinceHs, evLeft>>

InitLive == InitWith(0, TRUE)

NextLive ==
    \/ LivenessCheck
    \/ ProcessEvent
    \/ DrainEmpty
    \/ Publish
    \/ WorkerFlood
    \/ Tick

\* the aggregator thread keeps running and the clock keeps going
SpecLive ==
    /\ InitLive
    /\ [][NextLive]_vars
    /\ WF_vars(Aggregator)
    /\ WF_vars(Tick)

(* ------------- SpecWide: WideN controllers, each connecting once ------ *)
\* the k-th Connected event carries serial number k
WorkerConnectFresh ==
    /\ chan = <<>>
    /\ Cardinality(DOMAIN devices) < WideN
    /\ LET sn == Cardinality(DOMAIN devices) + 1
       IN  chan' = <<Connected(sn, DesignOf(sn))>>
    /\ UNCHANGED <<aggVars, workerVars, elapsed, inbound, outq, outClosed, sinceHs, evLeft>>

\* the first controller's reports: of an unknown serial before it connects
WorkerSample ==
    /\ chan = <<>>
    /\ \E b \in Batches : FloodOk(Data(1, b)) /\ chan' = <<Data(1, b)>>
    /\ UNCHANGED <<aggVars, workerVars, elapsed, inbound, outq, outClosed, sinceHs, evLeft>>

InitWide == InitWith(0, TRUE)

NextWide ==
    \/ LivenessCheck
    \/ ProcessEvent
    \/ DrainEmpty
    \/ Publish
    \/ WorkerConnectFresh
    \/ WorkerSample

SpecWide == InitWide /\ [][NextWide]_vars

(* -------- SpecWideRe: SpecWide, and the first controller reconnects --- *)
\* no record was replaced yet: every serial holds the slot it connected with
NoneReplaced ==
    \A d \in DOMAIN devices : devices[d].id = (d - 1) % U8Mod

\* joycon_thread of the first controller, after a disconnection: Connected
\* again, for a serial the table knows
WorkerReconnect ==
    /\ chan = <<>>
    /\ 1 \in DOMAIN devices
    /\ NoneReplaced
    /\ chan' = <<Connected(1, DesignOf(1))>>
    /\ UNCHANGED <<aggVars, workerVars, elapsed, inbound, outq, outClosed,
                   sinceHs, evLeft>>

NextWideRe ==
    \/ LivenessCheck
    \/ ProcessEvent
    \/ DrainEmpty
    \/ Publish
    \/ NoneReplaced /\ WorkerConnectFresh
    \/ WorkerReconnect
    \/ WorkerSample

SpecWideRe == InitWide /\ [][NextWideRe]_vars

(* --------- SpecOut: the status consumer receives, or goes away -------- *)
InitOut == InitWith(MaxEvents, FALSE)

NextOut ==
    \/ LivenessCheck
    \/ ProcessEvent
    \/ DrainEmpty
    \/ Publish
    \/ WorkerSend
    \/ ConsumerRecv
    \/ ConsumerDrop

SpecOut == InitOut /\ [][NextOut]_vars

(* ------------ SpecGone: the status consumer is gone from the start ---- *)
InitGone == InitWith(MaxEvents, TRUE)

SpecGone == InitGone /\ [][Next]_vars

(* ------------- SpecFail: a send_to of the socket may fail ------------- *)
OnSendError_Ignore(at) == at

\* socket.send_to(...).unwrap() on an Err: the thread of main_thread panics
OnSendError(at) == "panicked"

\* the datagrams sent before the one that failed
Before(out, k) == SubSeq(out, 1, k - 1)

\* lines 149-152 with the k-th send_to failing: slime_handshake for k = 1,
\* the device.handshake of a record for k > 1
ResendFails ==
    /\ pc = "check"
    /\ HandshakeDue
    /\ inbound = 0
    /\ \E order \in Orders(DOMAIN devices) :
          \E k \in 1..Len(ResendPackets(order)) :
              /\ sent' = Before(ResendPackets(order), k)
              /\ hsSent' = (hsSent \/ k > 1)
              /\ sinceHs' = IF k > 1 THEN 0 ELSE sinceHs
    /\ elapsed' = 0
    /\ pc' = OnSendError(pc)
    /\ last' = [op |-> "send_failed", ev |-> NoEvent]
    /\ pubd' = <<>>
    /\ UNCHANGED <<devices, any_response, attempt, got_message, chan, inbound,
                   outq, outClosed, nPub, nActive, drained, evLeft, announced,
                   procLog, workerVars>>

\* line 84 or line 101-103 with the send_to failing: a Connected event's
\* record is not inserted (line 85 is not reached), a sample's frames were
\* fed to the estimator before (lines 89-91)
EventSendFails ==
    /\ pc = "drain"
    /\ chan # <<>>
    /\ LET r == parse_message(Head(chan), devices)
       IN  /\ r.sent # <<>>
           /\ devices' = IF Head(chan).kind = "Connected"
                         THEN devices ELSE r.devices
    /\ sent' = <<>>
    /\ chan' = ChanRest(chan)
    /\ got_message' = TRUE
    /\ pc' = OnSendError(pc)
    /\ last' = [op |-> "send_failed", ev |-> Head(chan)]
    /\ pubd' = <<>>
    /\ UNCHANGED <<any_response, elapsed, attempt, inbound, outq, outClosed,
                   sinceHs, hsSent, nPub, nActive, drained, evLeft, announced,
                   procLog, workerVars>>

InitFail == InitWith(MaxEvents, FALSE)

NextFail ==
    \/ LivenessCheck
    \/ ProcessEvent
    \/ DrainEmpty
    \/ Publish
    \/ ResendFails
    \/ EventSendFails
    \/ WorkerSend
    \/ Tick
    \/ DatagramArrives

SpecFail == InitFail /\ [][NextFail]_vars

(* ------- SpecWorkers: one joycon_thread per controller, as coded ------ *)
ConnectSends_Silent(d) == <<>>

\* joycon_thread, lines 101-123: what it sends before it enters
\* joycon_listen_loop
ConnectSends(d) == <<Connected(d, DesignOf(d))>>

\* the worker's log, the messages it just sent appended
LogSent(d, msgs) == [sentLog EXCEPT ![d] = @ \o msgs]

\* joycon_thread finds its controller connected and opens it: Connected is
\* sent, then StandardFullMode::new succeeds (joycon_listen_loop starts) or
\* fails (back to the sleep of line 135)
WorkerConnects(d) ==
    /\ wpc[d] = "sleep"
    /\ evLeft > 0
    /\ Len(chan) < MaxQueue
    /\ chan' = chan \o ConnectSends(d)
    /\ sentLog' = LogSent(d, ConnectSends(d))
    /\ \E to \in {"listen", "sleep"} : wpc' = [wpc EXCEPT ![d] = to]
    /\ evLeft' = evLeft - 1
    /\ UNCHANGED <<aggVars, elapsed, inbound, outq, outClosed, sinceHs>>

\* joycon_listen_loop reads an input report of id 48 and sends its frames
WorkerReports(d) ==
    /\ wpc[d] = "listen"
    /\ evLeft > 0
    /\ Len(chan) < MaxQueue
    /\ \E b \in Batches :
          /\ chan' = Append(chan, Data(d, b))
          /\ sentLog' = LogSent(d, <<Data(d, b)>>)
    /\ evLeft' = evLeft - 1
    /\ UNCHANGED <<aggVars, wpc, elapsed, inbound, outq, outClosed, sinceHs>>

\* read_input_report returns Disconnected: joycon_listen_loop returns
WorkerDisconnects(d) ==
    /\ wpc[d] = "listen"
    /\ wpc' = [wpc EXCEPT ![d] = "sleep"]
    /\ UNCHANGED <<aggVars, sentLog, elapsed, chan, inbound, outq, outClosed,
                   sinceHs, evLeft>>

\* spawn_thread: one worker per controller, each at the top of its loop
InitWorkers ==
    /\ InitAggregator(MaxEvents, TRUE)
    /\ procLog = [d \in Serials |-> <<>>]
    /\ wpc = [d \in Serials |-> "sleep"]
    /\ sentLog = [d \in Serials |-> <<>>]

NextWorkers ==
    \/ LivenessCheck
    \/ ProcessEvent
    \/ DrainEmpty
    \/ Publish
    \/ \E d \in Serials : WorkerConnects(d)
    \/ \E d \in Serials : WorkerReports(d)
    \/ \E d \in Serials : WorkerDisconnects(d)
    \/ Tick

\* the aggregator thread keeps running
SpecWorkers ==
    /\ InitWorkers
    /\ [][NextWorkers]_vars
    /\ WF_vars(Aggregator)

(* ============================ properties ============================== *)
\* the steps of main_thread, told by the loop position and the channel
CheckStep == pc = "check" /\ pc' = "drain"
EventStep == pc = "drain" /\ chan # <<>> /\ chan' = Tail(chan) /\ drained'
PublishStep == pc = "publish" /\ pc' = "check"

\* how many datagrams of `seq` are the SensorInfo of slot s
SensorInfoCount(seq, s) ==
    Cardinality({i \in 1..Len(seq) :
        seq[i].kind = "SensorInfo" /\ seq[i].sensor_id = s})

(* ------------------------------- C1 ----------------------------------- *)
\* C1: in every reachable state, whatever Connected and Sample events were
\* processed (repeated Connected events for a known serial included), no two
\* records of the device table hold the same sensor slot.
C1_UniqueSlots ==
    \A a \in DOMAIN devices : \A b \in DOMAIN devices :
        a # b => devices[a].id # devices[b].id

(* ------------------------------- C2 ----------------------------------- *)
\* In SpecWide the k-th Connected event processed carries serial k, and no
\* serial connects twice.
\* C2 (as stated): for N Connected events of pairwise distinct identities,
\* the slots assigned are 0, 1, ..., N-1 in connection order and the
\* SensorInfo of the i-th connection carries sensor_id i-1.
C2_DenseSlots ==
    /\ DOMAIN devices = 1..Cardinality(DOMAIN devices)
    /\ \A d \in DOMAIN devices : devices[d].id = d - 1
    /\ last.op = "connected"
           => sent = <<SensorInfo(last.ev.serial_number - 1)>>

\* C2 (amended): the same for the first 256 connections, the numbers a u8
\* holds: the i-th connection, i <= 256, is given slot i-1, keeps it, and
\* its SensorInfo carries sensor_id i-1.
C2_DenseSlotsU8 ==
    /\ DOMAIN devices = 1..Cardinality(DOMAIN devices)
    /\ \A d \in DOMAIN devices : d <= U8Mod => devices[d].id = d - 1
    /\ (last.op = "connected" /\ last.ev.serial_number <= U8Mod)
           => sent = <<SensorInfo(last.ev.serial_number - 1)>>

\* the 256th controller has just connected
C2_Witness ==
    /\ Cardinality(DOMAIN devices) = U8Mod
    /\ last.op = "connected"
    /\ last.ev.serial_number = U8Mod

(* ------------------------------- C3 ----------------------------------- *)
\* C3: with no inbound datagram ever, and whatever the workers send and
\* when, the aggregator sends a Handshake again and again without end.
C3_HandshakeForever == []<>(last.op = "check_resend")

(* ------------------------------- C4 ----------------------------------- *)
\* what the aggregator may send once a datagram was seen: no Handshake, and
\* a SensorInfo only as the one datagram of a Connected event
QuietAfterResponse(out, step, devs) ==
    \A i \in 1..Len(out) :
        /\ out[i].kind # "Handshake"
        /\ out[i].kind = "SensorInfo" =>
              /\ step.op = "connected"
              /\ out = <<SensorInfo(devs[step.ev.serial_number].id)>>

\* C4: once any_response is set it stays set, no Handshake is sent any more,
\* and the only SensorInfo sent is the one of a Connected event; the check
\* that reads the datagram sends nothing.
C4_ResponseSeenIsTerminal ==
    [][/\ any_response => any_response'
       /\ any_response' => QuietAfterResponse(sent', last', devices')
       /\ (CheckStep /\ any_response' /\ ~any_response) => sent' = <<>>]_vars

\* a controller connects after the response, with a retry interval gone by
C4_Witness ==
    /\ any_response
    /\ elapsed >= HandshakeInterval
    /\ last.op = "connected"
    /\ Len(sent) = 1

(* ------------------------------- C5 ----------------------------------- *)
\* C5: the socket is read only at a check made in NoResponseSeen with the
\* interval elapsed; a check that reads nothing sends one Handshake, then
\* one SensorInfo per record of the table with that record's slot, and
\* comes at least HandshakeInterval seconds after the previous Handshake.
C5_RetryCadence ==
    [][(CheckStep /\ last'.op \in {"check_recv", "check_resend"}) =>
          /\ ~any_response
          /\ elapsed >= HandshakeInterval
          /\ last'.op = "check_resend" =>
                /\ ~any_response'
                /\ hsSent => sinceHs >= HandshakeInterval
                /\ Len(sent') = 1 + Cardinality(DOMAIN devices)
                /\ sent'[1] = Handshake
                /\ \A i \in 2..Len(sent') :
                      /\ sent'[i].kind = "SensorInfo"
                      /\ sent'[i].sensor_status = 1
                /\ \A s \in 0..(U8Mod - 1) :
                      SensorInfoCount(sent', s) =
                          Cardinality({d \in DOMAIN devices : devices[d].id = s})
      ]_vars

\* a retry, not the first, that announces two records again
C5_Witness ==
    /\ last.op = "check_resend"
    /\ ~any_response
    /\ Cardinality(DOMAIN devices) = 2
    /\ Len(sent) = 3

(* ------------------------------- C6 ----------------------------------- *)
\* C6: processing a Sample whose serial is no key of the device table leaves
\* the table and the liveness state as they were and sends nothing.
C6_UnknownSampleIsNoOp ==
    [][(/\ EventStep
        /\ Head(chan).kind = "Data"
        /\ Head(chan).serial_number \notin DOMAIN devices) =>
          /\ devices' = devices
          /\ any_response' = any_response
          /\ elapsed' = elapsed
          /\ sent' = <<>>
      ]_vars

\* a Sample of an unknown serial was dropped while another is known
C6_Witness ==
    /\ last.op = "data_unknown"
    /\ last.ev.kind = "Data"
    /\ last.ev.serial_number \notin DOMAIN devices
    /\ devices # <<>>

(* ------------------------------- C7 ----------------------------------- *)
\* C7: processing a Sample of k frames for a known serial feeds exactly
\* those k frames, in order, to that record's estimator and to no other,
\* then sends one RotationData with the record's slot and the estimator's
\* state after the last frame.
C7_OneRotationPerSample ==
    [][(/\ EventStep
        /\ Head(chan).kind = "Data"
        /\ Head(chan).serial_number \in DOMAIN devices) =>
          LET sn == Head(chan).serial_number
              frames == Head(chan).imu_data
          IN  /\ DOMAIN devices' = DOMAIN devices
              /\ devices'[sn].imu = devices[sn].imu \o frames
              /\ Len(devices'[sn].imu) = Len(devices[sn].imu) + Len(frames)
              /\ devices'[sn].id = devices[sn].id
              /\ devices'[sn].design = devices[sn].design
              /\ \A d \in DOMAIN devices : d # sn => devices'[d] = devices[d]
              /\ sent' = <<RotationData(devices[sn].id,
                                        ImuRotation(devices'[sn].imu))>>
      ]_vars

\* a Sample was processed for one of two known controllers
C7_Witness ==
    /\ last.op = "data"
    /\ Cardinality(DOMAIN devices) = 2
    /\ Len(sent) = 1
    /\ sent[1].kind = "RotationData"
    /\ Len(devices[last.ev.serial_number].imu) = FramesPerReport

(* ------------------------------- C8 ----------------------------------- *)
\* C8: a processed Connected event sends exactly one SensorInfo, with the
\* slot stored in the record it created and sensor_status 1, whether or not
\* a datagram was seen.
C8_OneSensorInfoPerConnect ==
    [][(EventStep /\ Head(chan).kind = "Connected") =>
          /\ Head(chan).serial_number \in DOMAIN devices'
          /\ sent' = <<[kind |-> "SensorInfo", packet_id |-> 1,
                        sensor_id |-> devices'[Head(chan).serial_number].id,
                        sensor_status |-> 1]>>
      ]_vars

\* a known controller connects again after the response was seen
C8_Witness ==
    /\ any_response
    /\ hsSent
    /\ last.op = "connected"
    /\ Cardinality(DOMAIN devices) = 1
    /\ devices[last.ev.serial_number].id = 1

(* ------------------------------- C9 ----------------------------------- *)
\* C9: a record's slot changes only when a Connected event of its own
\* serial is processed; a Sample sends the slot the record had, so a Sample
\* of the first controller after a second one connected carries sensor_id 0.
C9_SlotStable ==
    [][/\ \A d \in DOMAIN devices :
              (d \notin DOMAIN devices' \/ devices'[d].id # devices[d].id) =>
                  /\ EventStep
                  /\ Head(chan).kind = "Connected"
                  /\ Head(chan).serial_number = d
       /\ (/\ EventStep
           /\ Head(chan).kind = "Data"
           /\ Head(chan).serial_number \in DOMAIN devices) =>
              /\ Len(sent') = 1
              /\ sent'[1].sensor_id = devices[Head(chan).serial_number].id
      ]_vars

\* the first controller's Sample, after the second connected, carries 0
C9_Witness ==
    /\ last.op = "data"
    /\ DOMAIN devices = {1, 2}
    /\ devices[last.ev.serial_number].id = 0
    /\ \E d \in DOMAIN devices : devices[d].id = 1
    /\ sent[1].kind = "RotationData"
    /\ sent[1].sensor_id = 0

(* ------------------------------- C10 ---------------------------------- *)
\* C10: an iteration that drained no event publishes nothing, and the
\* publications never outnumber the iterations that drained an event.
C10_NoSnapshotWhenIdle ==
    [][/\ (PublishStep /\ ~drained) =>
              /\ outq' = outq
              /\ pubd' = <<>>
              /\ nPub' = nPub
       /\ nPub' <= nActive'
      ]_vars

\* an idle iteration ends after one that published
C10_Witness ==
    /\ last.op = "nopublish"
    /\ ~drained
    /\ nPub = 1
    /\ nActive = 1
    /\ Len(outq) = 1

(* ------------------------------- C11 ---------------------------------- *)
\* a publication through output_tx.send that the consumer is there for
SendStep == PublishStep /\ got_message /\ ~outClosed

\* C11 (as stated): when the consumer has not even received the snapshot
\* before (so it is not waiting to receive) at the moment main_thread
\* publishes, the new snapshot is discarded, not kept for later delivery,
\* and main_thread is not blocked.
C11_SnapshotDiscarded ==
    [][/\ (SendStep /\ outq # <<>>) => outq' = outq
       /\ ENABLED Aggregator]_vars

\* C11 (amended): whatever the consumer has received so far, the snapshot
\* main_thread publishes is queued behind the ones not yet received and
\* stays there for later delivery, and main_thread is not blocked: a step
\* of it is enabled in every state.
C11_SnapshotQueued ==
    [][/\ SendStep => (Len(pubd') = 1 /\ outq' = outq \o pubd')
       /\ ~SendStep => \/ outq' = outq
                       \/ outq # <<>> /\ outq' = Tail(outq) /\ pc' = pc
                       \/ outClosed' /\ ~outClosed
       /\ ENABLED Aggregator]_vars

\* a second snapshot was published while the first one was not received
C11_Witness ==
    /\ last.op = "publish"
    /\ ~outClosed
    /\ Len(outq) = 2
    /\ pubd = <<outq[2]>>

(* ------------------------------- C12 ---------------------------------- *)
\* main_thread leaves line 177 with the receiver of output_tx dropped
FailedSendStep == pc = "publish" /\ pc' # pc /\ got_message /\ outClosed

\* C12: a publication attempted with the status-output channel closed drops
\* the snapshot and nothing else happens: main_thread stays in its loop,
\* the device table and the liveness state (any_response, the time of the
\* last handshake try) are as before, and a step of main_thread is enabled
\* in every state, so that events are processed and datagrams sent later on.
C12_ClosedChannelDropsSilently ==
    [][/\ FailedSendStep =>
              /\ pc' = "check"
              /\ devices' = devices
              /\ any_response' = any_response
              /\ elapsed' = elapsed
              /\ hsSent' = hsSent
              /\ chan' = chan
              /\ inbound' = inbound
              /\ outq' = outq
              /\ pubd' = <<>>
       /\ pc' \in {"check", "drain", "publish"}
       /\ ENABLED Aggregator]_vars

\* after a dropped publication a sample was processed and its RotationData
\* sent
C12_Witness ==
    /\ outClosed
    /\ nPub >= 1
    /\ last.op = "data"
    /\ Len(sent) = 1
    /\ sent[1].kind = "RotationData"

(* ------------------------------- C13 ---------------------------------- *)
\* C13: a send_to that fails (of the Handshake, of a SensorInfo or of a
\* RotationData) ends main_thread: the state after the failure is the
\* panicked one, in which no step of main_thread is enabled, and from then
\* on no event is taken from the channel, no datagram is sent or received
\* and no snapshot is published.
C13_SendFailureIsFatal ==
    [][/\ last'.op = "send_failed" => pc' = "panicked"
       /\ pc = "panicked" =>
              /\ ~ENABLED Aggregator
              /\ pc' = "panicked"
              /\ Len(chan') >= Len(chan)
              /\ inbound' >= inbound
              /\ UNCHANGED <<devices, any_response, sent, pubd, last, outq,
                             nPub, hsSent>>]_vars

\* after a failed send events and a datagram wait, unprocessed
C13_Witness ==
    /\ pc = "panicked"
    /\ last.op = "send_failed"
    /\ Len(chan) = MaxQueue
    /\ inbound = MaxInbound

(* ------------------------------- C14 ---------------------------------- *)
\* C14: the serials of the device table never lose an element; the table
\* gains a serial only in the step that processes a Connected event, and
\* then exactly that event's serial; every Connected event processed leaves
\* its serial in the table; so the serials of the table are at every moment
\* the serials of the Connected events processed so far (the ones a
\* connection-time SensorInfo went out for).
C14_RecordsOnlyByConnected ==
    [][/\ DOMAIN devices \subseteq DOMAIN devices'
       /\ DOMAIN devices' # DOMAIN devices =>
              /\ EventStep
              /\ Head(chan).kind = "Connected"
              /\ DOMAIN devices' =
                     DOMAIN devices \cup {Head(chan).serial_number}
       /\ (EventStep /\ Head(chan).kind = "Connected") =>
              Head(chan).serial_number \in DOMAIN devices'
       /\ DOMAIN devices' = DOMAIN announced']_vars

\* both controllers are in the table and a sample was processed since
C14_Witness ==
    /\ DOMAIN devices = Serials
    /\ last.op = "data"
    /\ nActive >= 2

(* ------------------------------- C15 ---------------------------------- *)
\* a Connected event for a serial the table knows is processed
ReconnectStep ==
    /\ EventStep
    /\ Head(chan).kind = "Connected"
    /\ Head(chan).serial_number \in DOMAIN devices

\* the record of the reconnecting serial is replaced by a fresh one, the
\* table keeps its size and its other records
Replaced(slot) ==
    LET sn == Head(chan).serial_number
    IN  /\ DOMAIN devices' = DOMAIN devices
        /\ devices'[sn] = [imu |-> ImuNew, design |-> Head(chan).design,
                           id |-> slot]
        /\ \A d \in DOMAIN devices \ {sn} : devices'[d] = devices[d]

\* C15 (as stated): processing a Connected event for a serial already in
\* the table replaces that record: the new slot is the table size at that
\* moment, the estimator is a fresh one, the table size does not change and
\* the other records are unchanged.
C15_ReconnectReplaces ==
    [][ReconnectStep => Replaced(Cardinality(DOMAIN devices))]_vars

\* C15 (amended): the same, the new slot being the table size at that
\* moment modulo 256, the numbers a u8 holds.
C15_ReconnectReplacesU8 ==
    [][ReconnectStep => Replaced(Cardinality(DOMAIN devices) % U8Mod)]_vars

\* the first controller reconnected with WideN records in the table: its
\* slot is WideN modulo 256 and its estimator fresh
C15_Witness ==
    /\ last.op = "connected"
    /\ last.ev.serial_number = 1
    /\ Cardinality(DOMAIN devices) = WideN
    /\ devices[1] = [imu |-> ImuNew, design |-> "Left",
                     id |-> WideN % U8Mod]

(* ------------------------------- C16 ---------------------------------- *)
\* main_thread leaves line 168-178 in an iteration that drained an event
DrainedIterationEnds == pc = "publish" /\ pc' # pc /\ drained

\* the status entry a record is shown by
EntryOf(device) ==
    [connected |-> TRUE, rotation |-> ImuEuler(device.imu),
     design |-> device.design]

\* the snapshot has one entry per record of `devs`, each showing its record
IsSnapshotOf(snapshot, devs) ==
    /\ Len(snapshot) = Cardinality(DOMAIN devs)
    /\ \A d \in DOMAIN devs :
           Cardinality({i \in 1..Len(snapshot) : snapshot[i] = EntryOf(devs[d])})
             = Cardinality({e \in DOMAIN devs : EntryOf(devs[e]) = EntryOf(devs[d])})

\* C16: an iteration that drained at least one event ends with exactly one
\* publication, however many events it drained, and no other step
\* publishes, so that the publications made are as many as the iterations
\* that drained; the snapshot handed to a consumer that is there has
\* exactly one entry per record of the table, each with connected = true,
\* the record's design and the record's estimator state as it is after the
\* whole drain (that of a fresh estimator for a record without samples).
C16_OneSnapshotPerDrainedIteration ==
    [][/\ DrainedIterationEnds =>
              /\ nPub' = nPub + 1
              /\ ~outClosed =>
                     /\ Len(pubd') = 1
                     /\ IsSnapshotOf(pubd'[1], devices)
                     /\ outq' = Append(outq, pubd'[1])
       /\ nPub' # nPub => DrainedIterationEnds
       /\ nPub' = IF drained' /\ pc' # "check"
                  THEN nActive' - 1 ELSE nActive']_vars

\* one iteration drained three events and published one snapshot of two
\* entries, one of a record with a sample and one of a record without
C16_Witness ==
    /\ last.op = "publish"
    /\ nActive = 1
    /\ nPub = 1
    /\ Len(pubd[1]) = 2
    /\ \E i, j \in 1..2 :
           /\ pubd[1][i].rotation = ImuEuler(ImuNew)
           /\ pubd[1][j].rotation # ImuEuler(ImuNew)

(* ------------------------------- C17 ---------------------------------- *)
IsPrefix(a, b) == Len(a) <= Len(b) /\ SubSeq(b, 1, Len(a)) = a

\* the messages of worker d waiting in the channel, in order
InFlight(d) == SelectSeq(chan, LAMBDA m : m.serial_number = d)

\* C17: for every worker, the events main_thread has processed of it are,
\* in order, the first events it sent, the rest of what it sent waits in
\* the channel in sending order (nothing is lost, repeated or reordered),
\* and its k-th event, once sent, is eventually processed, whatever the
\* other worker sends and whenever the retry block runs.
C17_EveryEventProcessedInOrder ==
    /\ [](\A d \in Serials :
            /\ IsPrefix(procLog[d], sentLog[d])
            /\ sentLog[d] = procLog[d] \o InFlight(d))
    /\ \A d \in Serials : \A k \in 1..MaxEvents :
           (Len(sentLog[d]) >= k) ~> (Len(procLog[d]) >= k)

\* both workers' events were processed, interleaved, and a Handshake retry
\* ran in between
C17_Witness ==
    /\ Len(procLog[1]) >= 2
    /\ Len(procLog[2]) >= 1
    /\ chan = <<>>
    /\ last.op = "check_resend"
    /\ nActive >= 2

(* ------------------------------- C18 ---------------------------------- *)
\* worker d sends something in this step
Sends(d) == sentLog'[d] # sentLog[d]

\* the latest message in the log of worker d after this step
Sending(d) == sentLog'[d][Len(sentLog'[d])]

\* C18: a worker enters its listen loop only with a Connected event sent in
\* the same step of its thread, sends samples only from within the listen
\* loop, and sends one message at a time; hence the first message of every
\* worker is Connected, and no sample a worker sent is dropped as one of
\* an unknown device: main_thread finds the record and sends exactly one
\* RotationData for it.
C18_ConnectedBeforeSamples ==
    [][/\ \A d \in Serials :
              /\ (wpc[d] = "sleep" /\ wpc'[d] = "listen") =>
                     sentLog'[d] = Append(sentLog[d], Connected(d, DesignOf(d)))
              /\ Sends(d) =>
                     /\ Len(sentLog'[d]) = Len(sentLog[d]) + 1
                     /\ Sending(d).serial_number = d
                     /\ Sending(d).kind = "Data" => wpc[d] = "listen"
                     /\ Sending(d).kind = "Connected" => wpc[d] = "sleep"
              /\ sentLog'[d] # <<>> => sentLog'[d][1].kind = "Connected"
       /\ (EventStep /\ Head(chan).kind = "Data") =>
              /\ Head(chan).serial_number \in DOMAIN devices
              /\ last'.op = "data"
              /\ Len(sent') = 1
              /\ sent'[1].kind = "RotationData"
       /\ last'.op # "data_unknown"]_vars

\* the first worker sent Connected, came back to the top of its loop, sent
\* Connected again and then a sample, which main_thread turned into a
\* RotationData
C18_Witness ==
    /\ Len(procLog[1]) >= 3
    /\ procLog[1][1].kind = "Connected"
    /\ procLog[1][2].kind = "Connected"
    /\ procLog[1][3].kind = "Data"
    /\ last.op = "data"
    /\ sent # <<>>

(* ------------------------------- C19 ---------------------------------- *)
\* C19: the first datagram main_thread ever sends is a Handshake, whenever
\* inbound datagrams arrive: in every reachable state, if the last step of
\* main_thread sent a SensorInfo or a RotationData, a Handshake was sent
\* before it (in that step or an earlier one).
C19_HandshakeFirst ==
    (\E i \in 1..Len(sent) : sent[i].kind \in {"SensorInfo", "RotationData"})
        => hsSent

(* ------------------------------- C20 ---------------------------------- *)
\* C20: whenever the last step of main_thread sent a RotationData, it did
\* so for a sample of a serial for which a connection-time SensorInfo had
\* gone out before, and the sensor_id of the RotationData is the sensor_id
\* of the most recent such SensorInfo of that serial; so a SensorInfo with
\* that sensor_id was sent earlier.
C20_RotationAfterSensorInfo ==
    \A i \in 1..Len(sent) :
        sent[i].kind = "RotationData" =>
            /\ last.ev.kind = "Data"
            /\ last.ev.serial_number \in DOMAIN announced
            /\ sent[i].sensor_id = announced[last.ev.serial_number]

\* the first controller connected, connected again (its SensorInfo then
\* carrying slot 1) and sent a sample: the RotationData carries slot 1
C20_Witness ==
    /\ last.op = "data"
    /\ last.ev.serial_number = 1
    /\ DOMAIN devices = {1}
    /\ announced[1] = 1
    /\ Len(sent) = 1
    /\ sent[1].kind = "RotationData"
    /\ sent[1].sensor_id = 1

====
